---- MODULE Spec2Model ----
(***************************************************************************)
(* tsls-service: the MCP / JSON-RPC request handler with its project cache *)
(* (src/src/server.ts) and the refactoring skills that work on one global  *)
(* ts-morph project (src/unnamed/part_000).  Both read and write the same  *)
(* file system.                                                            *)
(***************************************************************************)
EXTENDS Integers, Sequences, FiniteSets, TLC

VARIABLES
    disk,          \* file system: path -> document, or Missing
    now,           \* Date.now()
    projectCache,  \* server.ts: { instance, timestamp }
    built,         \* number of Project objects constructed by getProject
    projects,      \* server.ts: instance -> its tracked source files
    suspended,     \* requests waiting in `await sourceFile.refreshFromFileSystem()`
    last,          \* the last exchange completed on /mcp
    ticks,         \* clock advances so far
    edits,         \* external file changes so far
    brain,         \* part_000: the global `project` (path -> tracked source file)
    op,            \* part_000: the last skill call, with the state it started from
    calls,         \* part_000: skill calls so far
    dirs,          \* file system: the directories that exist
    wrote          \* part_000: path -> what safeWriteFile put there, while nothing else
                   \* has written to the path since

vars == <<disk, now, projectCache, built, projects, suspended, last, ticks, edits, brain, op,
          calls, dirs, wrote>>

serverVars == <<now, projectCache, built, projects, suspended, last, ticks>>
brainVars == <<brain, op, calls, dirs, wrote>>

----------------------------------------------------------------------------
(* Bounds of the model *)

MaxPos == 3
MaxInst == 2
MaxTicks == 2
MaxEdits == 1
MaxSuspended == 1
MaxCalls == 2

----------------------------------------------------------------------------
(* JavaScript values that cross the request boundary *)

Undef == [t |-> "undefined"]
JNull == [t |-> "null"]
Num(n) == [t |-> "number", n |-> n]
Str(s) == [t |-> "string", s |-> s]

\* JavaScript truthiness: undefined, null, 0 and "" are falsy
Truthy(v) ==
    CASE v.t = "undefined" -> FALSE
      [] v.t = "null" -> FALSE
      [] v.t = "number" -> v.n # 0
      [] v.t = "string" -> v.s # ""
      [] OTHER -> TRUE

----------------------------------------------------------------------------
(* Source files as the provider (ts-morph) sees them: a tree of nodes.     *)
(* pos is the node's full start (leading trivia included), start its first *)
(* token, end its end; scope is the binding scope of an identifier.        *)

\* a path with no file, and a path the project holds no source file for: no nodes at all
Missing == <<>>
NotTracked == <<>>

FileA == "/repo/a.ts"
FileB == "/repo/b.ts"
Files == {FileA, FileB}

\* path.dirname of both
RepoDir == "/repo"

\* no content of safeWriteFile is known to be in the file
NoContent == <<>>

Node(kind, parent, pos, start, end, line, text, scope) ==
    [kind |-> kind, parent |-> parent, pos |-> pos, start |-> start, end |-> end,
     line |-> line, text |-> text, scope |-> scope]

Ident(parent, pos, start, end, line, text, scope) ==
    Node("Identifier", parent, pos, start, end, line, text, scope)

Other(kind, parent, pos, start, end, line) ==
    Node(kind, parent, pos, start, end, line, "", "")

Import(parent, pos, start, end, line, specifier) ==
    Node("ImportDeclaration", parent, pos, start, end, line, specifier, "")

\* ""
EmptyDoc ==
    << Other("SourceFile", 0, 0, 0, 0, 1),
       Other("EndOfFileToken", 1, 0, 0, 0, 1) >>

\* " foo;"
LeadDoc ==
    << Other("SourceFile", 0, 0, 1, 5, 1),
       Other("ExpressionStatement", 1, 0, 1, 5, 1),
       Ident(2, 0, 1, 4, 1, "foo", "G"),
       Other("EndOfFileToken", 1, 5, 5, 5, 1) >>

\* "foo ;\nfoo;"
CallDoc ==
    << Other("SourceFile", 0, 0, 0, 10, 1),
       Other("ExpressionStatement", 1, 0, 0, 5, 1),
       Ident(2, 0, 0, 3, 1, "foo", "G"),
       Other("ExpressionStatement", 1, 5, 6, 10, 2),
       Ident(4, 5, 6, 9, 2, "foo", "G"),
       Other("EndOfFileToken", 1, 10, 10, 10, 2) >>

\* "import './x';\nimport './y';\nbar;{foo;foo;}"   (bar is global, foo is local to
\* the block)
BlockDoc ==
    << Other("SourceFile", 0, 0, 0, 42, 1),
       Import(1, 0, 0, 13, 1, "./x"),
       Import(1, 13, 14, 27, 2, "./y"),
       Other("ExpressionStatement", 1, 27, 28, 32, 3),
       Ident(4, 27, 28, 31, 3, "bar", "G"),
       Other("Block", 1, 32, 32, 42, 3),
       Other("ExpressionStatement", 6, 33, 33, 37, 3),
       Ident(7, 33, 33, 36, 3, "foo", "L"),
       Other("ExpressionStatement", 6, 37, 37, 41, 3),
       Ident(9, 37, 37, 40, 3, "foo", "L"),
       Other("EndOfFileToken", 1, 42, 42, 42, 3) >>

\* "foo;"
TrimDoc ==
    << Other("SourceFile", 0, 0, 0, 4, 1),
       Other("ExpressionStatement", 1, 0, 0, 4, 1),
       Ident(2, 0, 0, 3, 1, "foo", "G"),
       Other("EndOfFileToken", 1, 4, 4, 4, 1) >>

\* "foo;\nfoo;"
TidyDoc ==
    << Other("SourceFile", 0, 0, 0, 9, 1),
       Other("ExpressionStatement", 1, 0, 0, 4, 1),
       Ident(2, 0, 0, 3, 1, "foo", "G"),
       Other("ExpressionStatement", 1, 4, 5, 9, 2),
       Ident(4, 4, 5, 8, 2, "foo", "G"),
       Other("EndOfFileToken", 1, 9, 9, 9, 2) >>

Docs == {EmptyDoc, LeadDoc, CallDoc, BlockDoc, TrimDoc, TidyDoc}

----------------------------------------------------------------------------
(* The provider calls the code makes on a source file *)

\* ToNumber in a relational comparison: anything but a number compares false
IsNumber(v) == v.t = "number"

Children(doc, n) == {i \in 1..Len(doc) : doc[i].parent = n}

\* Node.getChildAtPos: the first child whose full span covers pos
getChildAtPos(doc, n, pos) ==
    IF IsNumber(pos) /\ (pos.n < doc[n].pos \/ pos.n >= doc[n].end)
    THEN 0
    ELSE LET hit == {c \in Children(doc, n) :
                        IsNumber(pos) /\ pos.n >= doc[c].pos /\ pos.n < doc[c].end}
         IN IF hit = {} THEN 0 ELSE CHOOSE c \in hit : \A d \in hit : c <= d

RECURSIVE descend(_, _, _)
descend(doc, n, pos) ==
    LET next == getChildAtPos(doc, n, pos)
    IN IF next = 0 THEN n ELSE descend(doc, next, pos)

\* sourceFile.getDescendantAtPos(pos): the deepest node covering pos, 0 for undefined
getDescendantAtPos(doc, pos) ==
    LET first == getChildAtPos(doc, 1, pos)
    IN IF first = 0 THEN 0 ELSE descend(doc, first, pos)

isIdentifier(doc, n) == n # 0 /\ doc[n].kind = "Identifier"

RECURSIVE getFirstAncestorByKind(_, _, _)
\* node.getFirstAncestorByKind(kind): the nearest strict ancestor of that kind, 0 for undefined
getFirstAncestorByKind(doc, n, kind) ==
    LET p == doc[n].parent
    IN IF p = 0 THEN 0
       ELSE IF doc[p].kind = kind THEN p
       ELSE getFirstAncestorByKind(doc, p, kind)

\* The symbol an identifier is bound to: global names are shared by all files
SymbolOf(file, node) ==
    IF node.scope = "G" THEN <<"G", node.scope, node.text>>
    ELSE <<file, node.scope, node.text>>

----------------------------------------------------------------------------
(* server.ts: a Project instance and the reference search *)

EmptyProject == [files |-> [f \in Files |-> NotTracked], order |-> <<>>]

\* project.addSourceFileAtPath(absPath) of a file that is on disk
AddSourceFile(P, f, doc) ==
    [files |-> [P.files EXCEPT ![f] = doc],
     order |-> IF \E i \in 1..Len(P.order) : P.order[i] = f THEN P.order
               ELSE Append(P.order, f)]

\* SourceFile.forget(), called by refreshFromFileSystem when the file is gone
ForgetSourceFile(P, f) ==
    [files |-> [P.files EXCEPT ![f] = NotTracked],
     order |-> SelectSeq(P.order, LAMBDA g : g # f)]

\* path.relative(repoRoot, absolutePath)
RelativePath(f) == IF f = FileA THEN "a.ts" ELSE "b.ts"

RECURSIVE OccurrencesFrom(_, _, _, _)
\* the reference entries of symbol sym in one file, from node i on, in document order
OccurrencesFrom(f, doc, sym, i) ==
    IF i > Len(doc) THEN <<>>
    ELSE (IF doc[i].kind = "Identifier" /\ SymbolOf(f, doc[i]) = sym
          THEN << [file |-> RelativePath(f), line |-> doc[i].line, position |-> doc[i].start] >>
          ELSE <<>>) \o OccurrencesFrom(f, doc, sym, i + 1)

RECURSIVE ReferencesFrom(_, _, _)
\* node.findReferences() flattened: the provider walks the project's files in the
\* order they were added
ReferencesFrom(P, sym, k) ==
    IF k > Len(P.order) THEN <<>>
    ELSE OccurrencesFrom(P.order[k], P.files[P.order[k]], sym, 1)
         \o ReferencesFrom(P, sym, k + 1)

findRefsForNode(P, f, n) ==
    [status |-> "success",
     symbolName |-> P.files[f][n].text,
     references |-> ReferencesFrom(P, SymbolOf(f, P.files[f][n]), 1)]

----------------------------------------------------------------------------
(* server.ts: thrown errors and response envelopes *)

Thrown(code, message) == [threw |-> TRUE, error |-> [code |-> code, message |-> message], value |-> Undef]
Returned(value) == [threw |-> FALSE, error |-> Undef, value |-> value]

InvalidParams == Thrown(Num(-32602), "Invalid params: 'filePath' argument must be a string.")
NoNodeFound == Thrown(Num(-32001), "No node found at position")
NoIdentifierFound == Thrown(Num(-32001), "No valid identifier found at or near position")
ToolNotFound == Thrown(Num(-32601), "Tool not found")
MethodNotFound == Thrown(Num(-32601), "Method not found")
\* ts-morph's FileNotFoundError carries code "ENOENT"
FileNotFound == Thrown(Str("ENOENT"), "File not found")
\* ts-morph's InvalidOperationError carries no code
NodeForgotten == Thrown(Undef, "Attempted to get information from a node that was removed or forgotten.")
\* a manifest that cannot be parsed: a plain Error
ManifestInvalid == Thrown(Undef, "Failed to parse tsconfig")

InvalidRequest(id) ==
    [status |-> 400, error |-> [code |-> Num(-32600), message |-> "Invalid Request"],
     result |-> Undef, id |-> id]

ToolsList(id) ==
    [status |-> 200, error |-> Undef,
     result |-> [tools |-> << [name |-> "find_references"] >>], id |-> id]

CallResult(value, id) ==
    [status |-> 200, error |-> Undef,
     result |-> [content |-> << [type |-> "json", json |-> value] >>], id |-> id]

\* String(id), or the first characters of a fresh uuid
ReqId(id) ==
    IF id # Undef /\ id # JNull
    THEN (IF id.t = "number" THEN Str(ToString(id.n)) ELSE id)
    ELSE Str("uuid")

\* a catch block that answers under the correlation id
CaughtUnderReqId(outcome, id) ==
    [status |-> 500,
     error |-> [code |-> IF Truthy(outcome.error.code) THEN outcome.error.code ELSE Num(-32603),
                message |-> outcome.error.message],
     result |-> Undef, id |-> ReqId(id)]

\* a catch block that drops the code of the error
CaughtWithoutCode(outcome, id) ==
    [status |-> 500,
     error |-> [code |-> Num(-32603), message |-> outcome.error.message],
     result |-> Undef, id |-> id]

\* the catch block
Caught(outcome, id) ==
    [status |-> 500,
     error |-> [code |-> IF Truthy(outcome.error.code) THEN outcome.error.code ELSE Num(-32603),
                message |-> IF outcome.error.message # "" THEN outcome.error.message
                            ELSE "Internal Error"],
     result |-> Undef, id |-> id]

Answer(outcome, id) ==
    IF outcome.threw THEN Caught(outcome, id) ELSE CallResult(outcome.value, id)

----------------------------------------------------------------------------
(* server.ts: the project cache *)

CACHE_LIFETIME_MS == 5 * 60 * 1000

NoInstance == 0

\* a test that still accepts the instance at the instant it expires
CacheHitAtExpiry == projectCache.instance # NoInstance
                    /\ now <= projectCache.timestamp + CACHE_LIFETIME_MS

\* a test that never accepts the cached instance
CacheNeverHit == FALSE

\* the test of getProject: a cached instance that has not expired
CacheHit == projectCache.instance # NoInstance
            /\ now < projectCache.timestamp + CACHE_LIFETIME_MS

\* the outcomes of `new Project({tsConfigFilePath, ...})`
ConstructorOutcomes == {"ok", "notfound", "invalid"}

\* what one getProject() call did
Acquired(before, instance, after) ==
    [called |-> TRUE, at |-> now, before |-> before, builtBefore |-> built,
     instance |-> instance, after |-> after]

NotAcquired ==
    [called |-> FALSE, at |-> 0, before |-> projectCache, builtBefore |-> built,
     instance |-> NoInstance, after |-> projectCache]

\* instances something still refers to: the cache slot and the suspended requests
Live(cache, waiting) == {cache.instance} \cup {c.instance : c \in waiting}

\* a discarded instance is garbage
Collect(ps, cache, waiting) ==
    [i \in 1..MaxInst |-> IF i \in Live(cache, waiting) THEN ps[i] ELSE EmptyProject]

----------------------------------------------------------------------------
(* server.ts: requests *)

tools == {"find_references"}

Ids == {Undef, JNull, Num(7)}
Versions == {Str("2.0"), Str("1.0")}
Positions == {Undef} \cup {Num(p) : p \in 0..MaxPos}

\* req.body, with params.name and params.arguments.{filePath, position} flattened
Request(jsonrpc, method, id, name, filePath, position) ==
    [jsonrpc |-> jsonrpc, method |-> method, id |-> id, name |-> name,
     filePath |-> filePath, position |-> position]

\* envelopes with no method, tools/list, and a method that does not exist
PlainRequests ==
    {Request(v, m, id, Undef, Undef, Undef) :
        v \in Versions, m \in {Undef, Str("tools/list"), Str("ping")}, id \in Ids}

\* tools/call with no tool name, and with a name that is not registered
UnknownToolRequests ==
    {Request(v, Str("tools/call"), id, n, Undef, Undef) :
        v \in Versions, n \in {Undef, Str("nonexistent")}, id \in Ids}

\* tools/call of find_references with a filePath the tool rejects
BadPathRequests ==
    {Request(Str("2.0"), Str("tools/call"), id, Str("find_references"), fp, pos) :
        id \in Ids, fp \in {Undef, Str(""), Num(42)}, pos \in {Undef, Num(0)}}

\* tools/call of find_references on a path
FindRequests ==
    {Request(Str("2.0"), Str("tools/call"), id, Str("find_references"), Str(f), pos) :
        id \in Ids, f \in Files, pos \in Positions}
    \cup
    {Request(Str("1.0"), Str("tools/call"), id, Str("find_references"), Str(FileA), Num(0)) :
        id \in Ids}

Requests == PlainRequests \cup UnknownToolRequests \cup BadPathRequests \cup FindRequests

\* a lookup that accepts any name
HasToolNamed(name) == Truthy(name)

HasTool(name) == Truthy(name) /\ name.t = "string" /\ name.s \in tools

\* a resolution that takes whatever node covers the position for the symbol
ResolveAnyNode(P, f, position) ==
    LET doc == P.files[f]
        node == getDescendantAtPos(doc, position)
    IN IF node = 0 THEN NoNodeFound ELSE Returned(findRefsForNode(P, f, node))

\* steps 3 and 4 of find_references, on the loaded source file
Resolve(P, f, position) ==
    LET doc == P.files[f]
        node == getDescendantAtPos(doc, position)
    IN IF node = 0 THEN NoNodeFound
       ELSE IF isIdentifier(doc, node) THEN Returned(findRefsForNode(P, f, node))
       ELSE LET parentIdentifier == getFirstAncestorByKind(doc, node, "Identifier")
            IN IF parentIdentifier # 0
               THEN Returned(findRefsForNode(P, f, parentIdentifier))
               ELSE NoIdentifierFound

\* the defensive check of find_references
ValidFilePath(filePath) == Truthy(filePath) /\ filePath.t = "string"

\* res.json(...): the exchange is over
Complete(req, acq, steps, queried, thrown, resp) ==
    last' = [req |-> req, reqId |-> ReqId(req.id), acq |-> acq, steps |-> steps,
             queried |-> queried, thrown |-> thrown, responses |-> <<resp>>]

\* the end of the try block: the result of the switch, or the catch block
Settle(req, acq, steps, queried, outcome) ==
    Complete(req, acq, steps, queried, outcome.error, Answer(outcome, req.id))

\* an envelope test that forgets the method
MalformedVersion(req) == req.jsonrpc # Str("2.0")

\* the envelope test of the handler
MalformedEnvelope(req) == req.jsonrpc # Str("2.0") \/ ~Truthy(req.method)

NothingQueried == <<>>

\* find_references up to its await, and past it when the file was not tracked yet
FindReferences(req, acq, cache, ps) ==
    LET inst == acq.instance
        steps == <<"dispatch", "lookup", "getProject", "tool">>
    IN IF ~ValidFilePath(req.filePath)
       THEN /\ Settle(req, acq, steps, NothingQueried, InvalidParams)
            /\ projects' = Collect(ps, cache, suspended)
            /\ UNCHANGED suspended
       ELSE LET f == req.filePath.s
            IN IF ps[inst].files[f] = NotTracked
               THEN IF disk[f] = Missing
                    THEN /\ Settle(req, acq, Append(steps, "load"), NothingQueried, FileNotFound)
                         /\ projects' = Collect(ps, cache, suspended)
                         /\ UNCHANGED suspended
                    ELSE LET P == AddSourceFile(ps[inst], f, disk[f])
                         IN /\ Settle(req, acq, steps \o <<"load", "resolve">>, P.files[f],
                                      Resolve(P, f, req.position))
                            /\ projects' = Collect([ps EXCEPT ![inst] = P], cache, suspended)
                            /\ UNCHANGED suspended
               ELSE LET c == [req |-> req, acq |-> acq, instance |-> inst,
                              steps |-> steps, forgotten |-> FALSE]
                    IN /\ Cardinality(suspended) < MaxSuspended
                       /\ c \notin suspended
                       /\ suspended' = suspended \cup {c}
                       /\ projects' = Collect(ps, cache, suspended')
                       /\ UNCHANGED last

\* an acquire that stamps the cache slot before it constructs the project
CallToolStampFirst(req) ==
    IF CacheHit
    THEN /\ FindReferences(req, Acquired(projectCache, projectCache.instance, projectCache),
                           projectCache, projects)
         /\ UNCHANGED <<projectCache, built>>
    ELSE \E outcome \in ConstructorOutcomes :
           IF outcome = "ok"
           THEN /\ built < MaxInst
                /\ LET newProject == built + 1
                       cache == [instance |-> newProject, timestamp |-> now]
                   IN /\ projectCache' = cache
                      /\ built' = newProject
                      /\ FindReferences(req, Acquired(projectCache, newProject, cache), cache,
                                        [projects EXCEPT ![newProject] = EmptyProject])
           ELSE LET cache == [projectCache EXCEPT !.timestamp = now]
                IN /\ projectCache' = cache
                   /\ Settle(req, Acquired(projectCache, NoInstance, cache),
                             <<"dispatch", "lookup", "getProject">>, NothingQueried,
                             IF outcome = "notfound" THEN FileNotFound ELSE ManifestInvalid)
                   /\ UNCHANGED <<built, projects, suspended>>

\* case 'tools/call' past the tool lookup: getProject(), then the tool
CallTool(req) ==
    IF CacheHit
    THEN /\ FindReferences(req, Acquired(projectCache, projectCache.instance, projectCache),
                           projectCache, projects)
         /\ UNCHANGED <<projectCache, built>>
    ELSE \E outcome \in ConstructorOutcomes :
           IF outcome = "ok"
           THEN /\ built < MaxInst
                /\ LET newProject == built + 1
                       cache == [instance |-> newProject, timestamp |-> now]
                   IN /\ projectCache' = cache
                      /\ built' = newProject
                      /\ FindReferences(req, Acquired(projectCache, newProject, cache), cache,
                                        [projects EXCEPT ![newProject] = EmptyProject])
           ELSE /\ Settle(req, Acquired(projectCache, NoInstance, projectCache),
                          <<"dispatch", "lookup", "getProject">>, NothingQueried,
                          IF outcome = "notfound" THEN FileNotFound ELSE ManifestInvalid)
                /\ UNCHANGED <<projectCache, built, projects, suspended>>

\* app.post('/mcp'): the handler from its entry to its first suspension or its response
Post(req) ==
    /\ IF MalformedEnvelope(req)
       THEN /\ Complete(req, NotAcquired, <<>>, NothingQueried, Undef, InvalidRequest(req.id))
            /\ UNCHANGED <<projectCache, built, projects, suspended>>
       ELSE IF req.method = Str("tools/list")
       THEN /\ Complete(req, NotAcquired, <<"dispatch">>, NothingQueried, Undef, ToolsList(req.id))
            /\ UNCHANGED <<projectCache, built, projects, suspended>>
       ELSE IF req.method = Str("tools/call")
       THEN IF ~HasTool(req.name)
            THEN /\ Settle(req, NotAcquired, <<"dispatch", "lookup">>, NothingQueried, ToolNotFound)
                 /\ UNCHANGED <<projectCache, built, projects, suspended>>
            ELSE CallTool(req)
       ELSE /\ Settle(req, NotAcquired, <<"dispatch">>, NothingQueried, MethodNotFound)
            /\ UNCHANGED <<projectCache, built, projects, suspended>>
    /\ UNCHANGED <<disk, now, ticks, edits, brainVars>>

\* a continuation that asks the cache slot for the project again
ResumeOnCurrent(c) ==
    /\ c \in suspended
    /\ suspended' = suspended \ {c}
    /\ LET f == c.req.filePath.s
           inst == projectCache.instance
           steps == c.steps \o <<"refresh", "resolve">>
       IN IF c.forgotten \/ projects[inst].files[f] = NotTracked
          THEN /\ Settle(c.req, c.acq, steps, NothingQueried, NodeForgotten)
               /\ projects' = Collect(projects, projectCache, suspended')
          ELSE IF disk[f] = Missing
          THEN /\ Settle(c.req, c.acq, steps, NothingQueried, NodeForgotten)
               /\ projects' = Collect([projects EXCEPT ![inst] = ForgetSourceFile(@, f)],
                                      projectCache, suspended')
          ELSE LET P == [projects[inst] EXCEPT !.files[f] = disk[f]]
               IN /\ Settle(c.req, c.acq, steps, P.files[f], Resolve(P, f, c.req.position))
                  /\ projects' = Collect([projects EXCEPT ![inst] = P], projectCache, suspended')
    /\ UNCHANGED <<disk, now, projectCache, built, ticks, edits, brainVars>>

\* the continuation of find_references after `await sourceFile.refreshFromFileSystem()`
Resume(c) ==
    /\ c \in suspended
    /\ suspended' = suspended \ {c}
    /\ LET f == c.req.filePath.s
           inst == c.instance
           steps == c.steps \o <<"refresh", "resolve">>
       IN IF c.forgotten \/ projects[inst].files[f] = NotTracked
          THEN /\ Settle(c.req, c.acq, steps, NothingQueried, NodeForgotten)
               /\ projects' = Collect(projects, projectCache, suspended')
          ELSE IF disk[f] = Missing
          THEN /\ Settle(c.req, c.acq, steps, NothingQueried, NodeForgotten)
               /\ projects' = Collect([projects EXCEPT ![inst] = ForgetSourceFile(@, f)],
                                      projectCache, suspended')
          ELSE LET P == [projects[inst] EXCEPT !.files[f] = disk[f]]
               IN /\ Settle(c.req, c.acq, steps, P.files[f], Resolve(P, f, c.req.position))
                  /\ projects' = Collect([projects EXCEPT ![inst] = P], projectCache, suspended')
    /\ UNCHANGED <<disk, now, projectCache, built, ticks, edits, brainVars>>

\* time passes
Tick(d) ==
    /\ ticks < MaxTicks
    /\ now' = now + d
    /\ ticks' = ticks + 1
    /\ UNCHANGED <<disk, projectCache, built, projects, suspended, last, edits, brainVars>>

TickSteps == {1, CACHE_LIFETIME_MS - 1}

\* somebody else writes or removes a file
ExternalEdit(f, d) ==
    /\ edits < MaxEdits
    /\ d # disk[f]
    /\ disk' = [disk EXCEPT ![f] = d]
    /\ edits' = edits + 1
    /\ UNCHANGED <<now, projectCache, built, projects, suspended, last, ticks, brainVars>>

NoExchange ==
    [req |-> Undef, reqId |-> Undef, acq |-> Undef, steps |-> <<>>,
     queried |-> NothingQueried, thrown |-> Undef, responses |-> <<>>]

Init ==
    /\ disk = [f \in Files |-> IF f = FileA THEN CallDoc ELSE LeadDoc]
    /\ now = 0
    /\ projectCache = [instance |-> NoInstance, timestamp |-> 0]
    /\ built = 0
    /\ projects = [i \in 1..MaxInst |-> EmptyProject]
    /\ suspended = {}
    /\ last = NoExchange
    /\ ticks = 0
    /\ edits = 0
    /\ brain = [f \in Files |-> [text |-> NotTracked, saved |-> TRUE]]
    /\ op = Undef
    /\ calls = 0
    /\ dirs = {RepoDir}
    /\ wrote = [f \in Files |-> NoContent]

\* the requests of a client that has several in flight
ConcurrentRequests ==
    {Request(Str("2.0"), Str("tools/call"), Num(7), Str("find_references"), Str(f), Num(0)) :
        f \in Files}
    \cup
    {Request(Str("2.0"), Str("tools/list"), Num(7), Undef, Undef, Undef),
     Request(Str("2.0"), Str("ping"), Num(7), Undef, Undef, Undef),
     Request(Str("1.0"), Str("tools/list"), Num(7), Undef, Undef, Undef),
     Request(Str("2.0"), Str("tools/call"), Num(7), Str("nonexistent"), Undef, Undef)}

\* the server under requests that overlap, and a clock
NextServer ==
    \/ \E req \in ConcurrentRequests : Post(req)
    \/ \E c \in suspended : Resume(c)
    \/ \E d \in TickSteps : Tick(d)

SpecServer == Init /\ [][NextServer]_vars

\* what the files of the requests are changed to
ServerDocs == {EmptyDoc, LeadDoc, CallDoc}

\* the server under a client that sends any request, one at a time, and a changing
\* file system
NextDispatch ==
    \/ \E req \in Requests : suspended = {} /\ Post(req)
    \/ \E c \in suspended : Resume(c)
    \/ \E f \in Files, d \in ServerDocs \cup {Missing} : ExternalEdit(f, d)

SpecDispatch == Init /\ [][NextDispatch]_vars

----------------------------------------------------------------------------
(* part_000: the global project and the refactoring skills *)

Untracked == [text |-> NotTracked, saved |-> TRUE]

IsTracked(B, f) == B[f].text # NotTracked

\* project.addSourceFileAtPath(filePath): the source file the project already holds,
\* else the file read from disk (it throws when there is no such file)
CanAddSourceFile(B, D, f) == IsTracked(B, f) \/ D[f] # Missing

addSourceFileAtPath(B, D, f) ==
    IF IsTracked(B, f) THEN B ELSE [B EXCEPT ![f] = [text |-> D[f], saved |-> TRUE]]

\* a search that takes the first identifier whatever its text
findAnyIdentifierNode(doc, symbolName) ==
    LET hit == {i \in 1..Len(doc) : doc[i].kind = "Identifier"}
    IN IF hit = {} THEN 0 ELSE CHOOSE i \in hit : \A j \in hit : i <= j

\* a search that takes the last identifier with that text
findLastIdentifierNode(doc, symbolName) ==
    LET hit == {i \in 1..Len(doc) : doc[i].kind = "Identifier" /\ doc[i].text = symbolName}
    IN IF hit = {} THEN 0 ELSE CHOOSE i \in hit : \A j \in hit : i >= j

\* getFirstDescendant: the first identifier, in depth-first order, with that text
findIdentifierNode(doc, symbolName) ==
    LET hit == {i \in 1..Len(doc) : doc[i].kind = "Identifier" /\ doc[i].text = symbolName}
    IN IF hit = {} THEN 0 ELSE CHOOSE i \in hit : \A j \in hit : i <= j

\* the occurrences of a symbol in one tracked file
OccurrencesIn(B, g, sym) ==
    IF ~IsTracked(B, g) THEN {}
    ELSE {i \in 1..Len(B[g].text) :
            B[g].text[i].kind = "Identifier" /\ SymbolOf(g, B[g].text[i]) = sym}

RECURSIVE CountIn(_, _, _)
\* the number of occurrences of a symbol in a set of files
CountIn(B, S, sym) ==
    IF S = {} THEN 0
    ELSE LET g == CHOOSE g \in S : TRUE
         IN Cardinality(OccurrencesIn(B, g, sym)) + CountIn(B, S \ {g}, sym)

\* identifier.findReferences(), flattened: every occurrence in every tracked file
refPaths(B, sym) ==
    [count |-> CountIn(B, Files, sym),
     files |-> {g \in Files : OccurrencesIn(B, g, sym) # {}}]

\* what findAllReferences(filePath, symbolName) returns, when it returns
findAllReferencesResult(B, D, f, symbolName) ==
    LET B1 == addSourceFileAtPath(B, D, f)
        identifier == findIdentifierNode(B1[f].text, symbolName)
    IN IF identifier = 0
       THEN [status |-> "ERROR", count |-> 0, files |-> {}]
       ELSE LET refs == refPaths(B1, SymbolOf(f, B1[f].text[identifier]))
            IN [status |-> "SUCCESS", count |-> refs.count, files |-> refs.files]

\* the text of a file with the given identifiers renamed
Retexted(doc, occurrences, newName) ==
    [i \in 1..Len(doc) |->
        IF i \in occurrences THEN [doc[i] EXCEPT !.text = newName] ELSE doc[i]]

\* a rename that rewrites the target file only
renameInFileOnly(B, f, sym, newName) ==
    [g \in Files |->
        LET occurrences == OccurrencesIn(B, g, sym)
        IN IF g # f \/ occurrences = {} THEN B[g]
           ELSE [text |-> Retexted(B[g].text, occurrences, newName), saved |-> FALSE]]

\* identifier.rename(newName): every occurrence of the symbol, in every tracked
\* file, gets the new text; the files it touches become unsaved
rename(B, f, sym, newName) ==
    [g \in Files |->
        LET occurrences == OccurrencesIn(B, g, sym)
        IN IF occurrences = {} THEN B[g]
           ELSE [text |-> Retexted(B[g].text, occurrences, newName), saved |-> FALSE]]

Unsaved(B) == {g \in Files : IsTracked(B, g) /\ ~B[g].saved}

\* source files written by save(): their text is on disk and they are saved
SavedFiles(B, written) ==
    [g \in Files |-> IF g \in written THEN [B[g] EXCEPT !.saved = TRUE] ELSE B[g]]

WrittenDisk(B, written) ==
    [g \in Files |-> IF g \in written THEN B[g].text ELSE disk[g]]

\* the record of one skill call
Called(name, f, a, b, result, count, attempted, written) ==
    [name |-> name, file |-> f, a |-> a, b |-> b, result |-> result, count |-> count,
     attempted |-> attempted, written |-> written,
     before |-> [disk |-> disk, brain |-> brain],
     after |-> [disk |-> disk', brain |-> brain']]

\* another writer has been at these files
Overwritten(touched) == [g \in Files |-> IF g \in touched THEN NoContent ELSE wrote[g]]

Names == {"foo", "bar"}
Specifiers == {"./x", "./y", "./m"}

\* findAllReferences(filePath, symbolName)
FindAllReferences(f, symbolName) ==
    /\ calls < MaxCalls
    /\ calls' = calls + 1
    /\ disk' = disk
    /\ IF ~CanAddSourceFile(brain, disk, f)
       THEN /\ brain' = brain
            /\ op' = Called("findAllReferences", f, symbolName, "", "THROW", 0, {}, {})
       ELSE LET r == findAllReferencesResult(brain, disk, f, symbolName)
            IN /\ brain' = addSourceFileAtPath(brain, disk, f)
               /\ op' = Called("findAllReferences", f, symbolName, "", r.status, r.count, {}, {})
    /\ UNCHANGED <<serverVars, edits, dirs, wrote>>

\* a rename that saves the dirty files before it looks for the symbol
SaveThenRename(f, symbolName, newName, dirty) ==
    /\ calls < MaxCalls
    /\ calls' = calls + 1
    /\ CanAddSourceFile(brain, disk, f)
    /\ LET B0 == addSourceFileAtPath(brain, disk, f)
           B1 == SavedFiles(B0, dirty)
           identifier == findIdentifierNode(B1[f].text, symbolName)
       IN /\ dirty = Unsaved(B0)
          /\ disk' = WrittenDisk(B0, dirty)
          /\ IF identifier = 0
             THEN /\ brain' = B1
                  /\ op' = Called("safeRenameSymbol", f, symbolName, newName, "ERROR", 0,
                                  dirty, dirty)
             ELSE /\ brain' = rename(B1, f, SymbolOf(f, B1[f].text[identifier]), newName)
                  /\ op' = Called("safeRenameSymbol", f, symbolName, newName, "SUCCESS", 0,
                                  dirty, dirty)
    /\ UNCHANGED <<serverVars, edits, dirs, wrote>>

\* a rename that puts the files it saved back when the save of another one fails
RenameWithRollback(f, symbolName, newName, written) ==
    /\ calls < MaxCalls
    /\ calls' = calls + 1
    /\ CanAddSourceFile(brain, disk, f)
    /\ LET B1 == addSourceFileAtPath(brain, disk, f)
           identifier == findIdentifierNode(B1[f].text, symbolName)
       IN /\ identifier # 0
          /\ LET sym == SymbolOf(f, B1[f].text[identifier])
                 B2 == rename(B1, f, sym, newName)
                 complete == written = Unsaved(B2)
             IN /\ written \subseteq Unsaved(B2)
                /\ brain' = (IF complete THEN SavedFiles(B2, written) ELSE B2)
                /\ disk' = (IF complete THEN WrittenDisk(B2, written) ELSE disk)
                /\ wrote' = Overwritten({g \in Files : OccurrencesIn(B1, g, sym) # {}})
                /\ op' = Called("safeRenameSymbol", f, symbolName, newName,
                                IF complete THEN "SUCCESS" ELSE "THROW",
                                0, Unsaved(B2), written)
    /\ UNCHANGED <<serverVars, edits, dirs>>

\* safeRenameSymbol(filePath, symbolName, newName); of the unsaved files, project.save()
\* gets `written` onto the disk before it ends
safeRenameSymbol(f, symbolName, newName, written) ==
    /\ calls < MaxCalls
    /\ calls' = calls + 1
    /\ IF ~CanAddSourceFile(brain, disk, f)
       THEN /\ written = {}
            /\ brain' = brain
            /\ disk' = disk
            /\ wrote' = wrote
            /\ op' = Called("safeRenameSymbol", f, symbolName, newName, "THROW", 0, {}, {})
       ELSE LET B1 == addSourceFileAtPath(brain, disk, f)
                identifier == findIdentifierNode(B1[f].text, symbolName)
            IN IF identifier = 0
               THEN /\ written = {}
                    /\ brain' = B1
                    /\ disk' = disk
                    /\ wrote' = wrote
                    /\ op' = Called("safeRenameSymbol", f, symbolName, newName, "ERROR", 0,
                                    {}, {})
               ELSE LET sym == SymbolOf(f, B1[f].text[identifier])
                        B2 == rename(B1, f, sym, newName)
                    IN /\ written \subseteq Unsaved(B2)
                       /\ brain' = SavedFiles(B2, written)
                       /\ disk' = WrittenDisk(B2, written)
                       /\ wrote' = Overwritten({g \in Files : OccurrencesIn(B1, g, sym) # {}})
                       /\ op' = Called("safeRenameSymbol", f, symbolName, newName,
                                       IF written = Unsaved(B2) THEN "SUCCESS" ELSE "THROW",
                                       0, Unsaved(B2), written)
    /\ UNCHANGED <<serverVars, edits, dirs>>

\* the import declarations of a file whose module specifier is oldPath
MatchingImports(doc, oldPath) ==
    {i \in 1..Len(doc) : doc[i].kind = "ImportDeclaration" /\ doc[i].text = oldPath}

\* declaration.setModuleSpecifier(newPath) on each of them
SetModuleSpecifiers(doc, oldPath, newPath) ==
    LET matching == MatchingImports(doc, oldPath)
    IN [i \in 1..Len(doc) |->
          IF i \in matching THEN [doc[i] EXCEPT !.text = newPath] ELSE doc[i]]

\* a test that saves the file whatever the count
ShouldSaveAlways(changes) == TRUE

\* the test `changes > 0`
ShouldSave(changes) == changes > 0

\* safeUpdateImport(filePath, oldPath, newPath); saveOk: sourceFile.save() succeeds
safeUpdateImport(f, oldPath, newPath, saveOk) ==
    /\ calls < MaxCalls
    /\ calls' = calls + 1
    /\ IF ~CanAddSourceFile(brain, disk, f)
       THEN /\ saveOk
            /\ brain' = brain
            /\ disk' = disk
            /\ wrote' = wrote
            /\ op' = Called("safeUpdateImport", f, oldPath, newPath, "THROW", 0, {}, {})
       ELSE LET B1 == addSourceFileAtPath(brain, disk, f)
                changes == Cardinality(MatchingImports(B1[f].text, oldPath))
                B2 == IF changes = 0 THEN B1
                      ELSE [B1 EXCEPT ![f] =
                              [text |-> SetModuleSpecifiers(B1[f].text, oldPath, newPath),
                               saved |-> FALSE]]
            IN /\ wrote' = Overwritten(IF changes > 0 THEN {f} ELSE {})
               /\ IF ShouldSave(changes)
                  THEN IF saveOk
                       THEN /\ brain' = SavedFiles(B2, {f})
                            /\ disk' = WrittenDisk(B2, {f})
                            /\ op' = Called("safeUpdateImport", f, oldPath, newPath, "SUCCESS",
                                            changes, {f}, {f})
                       ELSE /\ brain' = B2
                            /\ disk' = disk
                            /\ op' = Called("safeUpdateImport", f, oldPath, newPath, "THROW",
                                            changes, {f}, {})
                  ELSE /\ saveOk
                       /\ brain' = B2
                       /\ disk' = disk
                       /\ op' = Called("safeUpdateImport", f, oldPath, newPath, "INFO",
                                       changes, {}, {})
    /\ UNCHANGED <<serverVars, edits, dirs>>

\* sourceFile.getPreEmitDiagnostics(): the documents of the model declare nothing, so
\* every identifier is a name that cannot be found
getPreEmitDiagnostics(doc) == {i \in 1..Len(doc) : doc[i].kind = "Identifier"}

\* checkTypeErrors(filePath)
checkTypeErrors(f) ==
    /\ calls < MaxCalls
    /\ calls' = calls + 1
    /\ disk' = disk
    /\ IF ~CanAddSourceFile(brain, disk, f)
       THEN /\ brain' = brain
            /\ op' = Called("checkTypeErrors", f, "", "", "THROW", 0, {}, {})
       ELSE IF disk[f] = Missing
       THEN \* refreshFromFileSystem forgets the file, and the diagnostics of a forgotten
            \* file cannot be asked for
            /\ brain' = [brain EXCEPT ![f] = Untracked]
            /\ op' = Called("checkTypeErrors", f, "", "", "THROW", 0, {}, {})
       ELSE LET diagnostics == getPreEmitDiagnostics(disk[f])
            IN /\ brain' = [brain EXCEPT ![f] = [text |-> disk[f], saved |-> TRUE]]
               /\ op' = Called("checkTypeErrors", f, "", "",
                               IF diagnostics = {} THEN "SUCCESS" ELSE "ERROR",
                               Cardinality(diagnostics), {}, {})
    /\ UNCHANGED <<serverVars, edits, dirs, wrote>>

\* sourceFile.formatText(), on the contents the model writes: leading blanks and blanks
\* before a semicolon go
formatText(doc) ==
    CASE doc = LeadDoc -> TrimDoc
      [] doc = CallDoc -> TidyDoc
      [] OTHER -> doc

\* what is passed as `content`, parsed
Contents == {LeadDoc}

\* the outcomes of the file system calls of safeWriteFile
WriteFailures == {"none", "mkdir", "save"}

\* the record of one safeWriteFile call
WriteCalled(f, content, result, steps) ==
    [name |-> "safeWriteFile", file |-> f, content |-> content, result |-> result,
     steps |-> steps,
     before |-> [disk |-> disk, brain |-> brain],
     after |-> [disk |-> disk', brain |-> brain']]

\* a writer that persists the content before it formats it
SaveThenFormat(f, content, failure) ==
    /\ calls < MaxCalls
    /\ calls' = calls + 1
    /\ failure = "none"
    /\ dirs' = dirs \cup {RepoDir}
    /\ disk' = [disk EXCEPT ![f] = content]
    /\ brain' = [brain EXCEPT ![f] = [text |-> formatText(content), saved |-> FALSE]]
    /\ wrote' = [wrote EXCEPT ![f] = formatText(content)]
    /\ op' = WriteCalled(f, content, "SUCCESS", <<"mkdir", "create", "save", "format", "add">>)
    /\ UNCHANGED <<serverVars, edits>>

\* safeWriteFile(filePath, content); failure: the call that rejects, if any
safeWriteFile(f, content, failure) ==
    /\ calls < MaxCalls
    /\ calls' = calls + 1
    /\ IF failure = "mkdir"
       THEN /\ UNCHANGED <<disk, brain, dirs, wrote>>
            /\ op' = WriteCalled(f, content, "ERROR", <<"mkdir">>)
       ELSE LET created == [text |-> content, saved |-> FALSE]
                formatted == [created EXCEPT !.text = formatText(created.text)]
            IN /\ dirs' = dirs \cup {RepoDir}
               /\ IF failure = "save"
                  THEN /\ brain' = [brain EXCEPT ![f] = formatted]
                       /\ disk' = disk
                       /\ wrote' = Overwritten({f})
                       /\ op' = WriteCalled(f, content, "ERROR",
                                            <<"mkdir", "create", "format", "save">>)
                  ELSE LET B == [brain EXCEPT ![f] = [formatted EXCEPT !.saved = TRUE]]
                       IN /\ disk' = [disk EXCEPT ![f] = formatted.text]
                          /\ brain' = addSourceFileAtPath(B, disk', f)
                          /\ wrote' = [wrote EXCEPT ![f] = formatted.text]
                          /\ op' = WriteCalled(f, content, "SUCCESS",
                                               <<"mkdir", "create", "format", "save", "add">>)
    /\ UNCHANGED <<serverVars, edits>>

\* the directories safeMkdir is asked for
MkDirs == {RepoDir, "/repo/gen"}

\* safeMkdir(dirPath); created: fs.mkdir resolves
safeMkdir(dirPath, created) ==
    /\ calls < MaxCalls
    /\ calls' = calls + 1
    /\ dirs' = IF created THEN dirs \cup {dirPath, RepoDir} ELSE dirs
    /\ UNCHANGED <<serverVars, edits, disk, brain, wrote>>
    /\ op' = Called("safeMkdir", dirPath, "", "", IF created THEN "SUCCESS" ELSE "ERROR",
                    0, {}, {})

\* somebody else writes or removes a file while the skills are idle
BrainEdit(f, d) ==
    /\ edits < MaxEdits
    /\ d # disk[f]
    /\ disk' = [disk EXCEPT ![f] = d]
    /\ edits' = edits + 1
    /\ wrote' = Overwritten({f})
    /\ UNCHANGED <<serverVars, brain, op, calls, dirs>>

BrainDocs == {CallDoc}

InitBrain ==
    /\ disk = [f \in Files |-> IF f = FileA THEN BlockDoc ELSE CallDoc]
    /\ now = 0
    /\ projectCache = [instance |-> NoInstance, timestamp |-> 0]
    /\ built = 0
    /\ projects = [i \in 1..MaxInst |-> EmptyProject]
    /\ suspended = {}
    /\ last = NoExchange
    /\ ticks = 0
    /\ edits = 0
    /\ brain = [f \in Files |-> Untracked]
    /\ op = Undef
    /\ calls = 0
    /\ dirs = {RepoDir}
    /\ wrote = [f \in Files |-> NoContent]

NextBrain ==
    \/ \E f \in Files, n \in Names : FindAllReferences(f, n)
    \/ \E f \in Files, n \in Names, m \in Names, w \in SUBSET Files :
          safeRenameSymbol(f, n, m, w)
    \/ \E f \in Files, o \in Specifiers, n \in {"./y"}, ok \in BOOLEAN :
          safeUpdateImport(f, o, n, ok)
    \/ \E f \in Files : checkTypeErrors(f)
    \/ \E f \in Files, content \in Contents, failure \in WriteFailures :
          safeWriteFile(f, content, failure)
    \/ \E d \in MkDirs, created \in BOOLEAN : safeMkdir(d, created)
    \/ \E f \in Files, d \in BrainDocs \cup {Missing} : BrainEdit(f, d)

SpecBrain == InitBrain /\ [][NextBrain]_vars

----------------------------------------------------------------------------
(* Claims about the request handler and the project cache *)

Response == last.responses[1]
Answered == last.req # Undef

ErrorCode(resp) == IF resp.error = Undef THEN Undef ELSE resp.error.code

\* one getProject() call, as the claim describes it
AcquireAsSpecified(a) ==
    IF a.before.instance # NoInstance /\ a.at < a.before.timestamp + 5 * 60 * 1000
    THEN a.instance = a.before.instance /\ a.after = a.before
    ELSE a.instance # NoInstance =>
            /\ a.instance # a.before.instance
            /\ a.instance \notin 1..a.builtBefore
            /\ a.after = [instance |-> a.instance, timestamp |-> a.at]

\* C1: a getProject() call at time t with an instance cached at time c returns that
\* instance and leaves the cache alone when t < c + 5 minutes; otherwise (expired, or
\* nothing cached) it returns a newly constructed instance, different from every
\* earlier one, and the cache becomes that instance with timestamp t.
C1_CacheIdentity ==
    /\ (Answered /\ last.acq.called) => AcquireAsSpecified(last.acq)
    /\ \A c \in suspended : AcquireAsSpecified(c.acq)

\* a rebuild at the very instant the cached instance expires
C1_Witness ==
    /\ Answered
    /\ last.acq.called
    /\ last.acq.before.instance # NoInstance
    /\ last.acq.at = last.acq.before.timestamp + 5 * 60 * 1000
    /\ last.acq.instance = last.acq.before.instance + 1

\* C2: an exchange on /mcp ends with exactly one response, whose id is the request's
\* own id on every path; the correlation id made up for an absent or null id is never
\* the response's id.
C2_IdPassedThrough ==
    Answered =>
        /\ Len(last.responses) = 1
        /\ Response.id = last.req.id
        /\ (last.req.id \in {Undef, JNull} => Response.id # last.reqId)

\* an error answered to a request that carried no id
C2_Witness ==
    /\ Answered
    /\ last.req.id = Undef
    /\ last.thrown # Undef
    /\ Len(last.responses) = 1
    /\ Response.id = Undef

\* C3: a failed request is answered with one error envelope and no result; the
\* envelope carries the code of the thrown error, or -32603 when the error has none.
C3_FailureIsErrorEnvelope ==
    Answered =>
        /\ Len(last.responses) = 1
        /\ (Response.error = Undef) # (Response.result = Undef)
        /\ last.thrown # Undef =>
              /\ Response.result = Undef
              /\ Response.error # Undef
              /\ Response.error.code =
                    (IF last.thrown.code # Undef THEN last.thrown.code ELSE Num(-32603))

\* an error without a code, answered with -32603
C3_Witness ==
    /\ Answered
    /\ last.thrown # Undef
    /\ last.thrown.code = Undef
    /\ Response.error # Undef
    /\ Response.error.code = Num(-32603)

UnknownTool(req) ==
    req.method = Str("tools/call") /\ (req.name = Undef \/ req.name.s \notin tools)

UnknownMethod(req) == req.method \notin {Str("tools/list"), Str("tools/call")}

WellFormed(req) == req.jsonrpc = Str("2.0") /\ req.method # Undef

MethodNotFoundAnswer ==
    /\ ErrorCode(Response) = Num(-32601)
    /\ \A i \in 1..Len(last.steps) : last.steps[i] # "tool"

\* C4 as stated: a tools/call with a missing or unregistered tool name, and any
\* request whose method is neither tools/list nor tools/call, is answered with -32601
\* and no tool handler runs.
C4_AsStated ==
    (Answered /\ (UnknownTool(last.req) \/ UnknownMethod(last.req)))
        => MethodNotFoundAnswer

\* C4 amended: the same, for a request whose envelope is well formed (jsonrpc "2.0"
\* and a method present).
C4_UnknownIsMethodNotFound ==
    (Answered /\ WellFormed(last.req) /\ (UnknownTool(last.req) \/ UnknownMethod(last.req)))
        => MethodNotFoundAnswer

\* a well-formed tools/call of a tool that is not registered, answered with -32601
C4_Witness ==
    /\ Answered
    /\ WellFormed(last.req)
    /\ last.req.method = Str("tools/call")
    /\ last.req.name = Str("nonexistent")
    /\ ErrorCode(Response) = Num(-32601)

ToolCalled(req) == WellFormed(req) /\ req.method = Str("tools/call")
                   /\ req.name = Str("find_references")

BadFilePath(req) == req.filePath.t # "string" \/ req.filePath = Str("")
BadPosition(req) == req.position.t # "number"

Touched(steps) ==
    \E i \in 1..Len(steps) : steps[i] \in {"load", "refresh", "resolve"}

\* C5: find_references fails with -32602 when filePath is absent, empty or not a
\* string, and likewise when position is absent or not a number; in none of these
\* cases is the file loaded or the model queried.
C5_InvalidParams ==
    (Answered /\ ToolCalled(last.req) /\ last.acq.instance # NoInstance
        /\ (BadFilePath(last.req) \/ BadPosition(last.req)))
        => (ErrorCode(Response) = Num(-32602) /\ ~Touched(last.steps))

Covers(doc, n, p) == doc[n].pos <= p /\ p < doc[n].end

RECURSIVE AncestorsOf(_, _)
AncestorsOf(doc, n) ==
    IF doc[n].parent = 0 THEN {} ELSE {doc[n].parent} \cup AncestorsOf(doc, doc[n].parent)

\* the nodes below the root that cover p, with all their ancestors, and have no
\* child that covers p
DeepestCovering(doc, position) ==
    IF position.t # "number" THEN {}
    ELSE {n \in 2..Len(doc) :
            /\ Covers(doc, n, position.n)
            /\ \A a \in AncestorsOf(doc, n) : Covers(doc, a, position.n)
            /\ \A c \in Children(doc, n) : ~Covers(doc, c, position.n)}

\* the identifier the claim resolves a position to, 0 when there is none
ResolvedAt(doc, position) ==
    LET deepest == DeepestCovering(doc, position)
    IN IF deepest = {} THEN 0
       ELSE LET n == CHOOSE n \in deepest : TRUE
                up == {a \in AncestorsOf(doc, n) : doc[a].kind = "Identifier"}
            IN IF doc[n].kind = "Identifier" THEN n
               ELSE IF up = {} THEN 0
               ELSE CHOOSE a \in up : \A b \in up : b \in AncestorsOf(doc, a) \cup {a}

\* C6: find_references resolves a position to the deepest node covering it when that
\* node is an identifier, else to the first identifier among its ancestors; with no
\* node at the position or no identifier on the ancestor chain the request fails with
\* -32001 and returns no reference list.
C6_ResolveByPosition ==
    (Answered /\ last.queried # NothingQueried) =>
        LET doc == last.queried
            n == ResolvedAt(doc, last.req.position)
        IN IF n # 0
           THEN /\ Response.result # Undef
                /\ Response.result.content[1].json.symbolName = doc[n].text
                /\ \E i \in 1..Len(Response.result.content[1].json.references) :
                      Response.result.content[1].json.references[i] =
                          [file |-> RelativePath(last.req.filePath.s),
                           line |-> doc[n].line, position |-> doc[n].start]
           ELSE /\ ErrorCode(Response) = Num(-32001)
                /\ Response.result = Undef

\* a position in the blank before a semicolon: no identifier, -32001
C6_Witness ==
    /\ Answered
    /\ last.queried = CallDoc
    /\ last.req.position = Num(3)
    /\ ErrorCode(Response) = Num(-32001)

\* C7: a request whose jsonrpc is not "2.0" or that has no method is answered with
\* -32600 before any dispatch on the method, tool lookup or getProject() call.
C7_MalformedEnvelope ==
    (Answered /\ (last.req.jsonrpc # Str("2.0") \/ last.req.method = Undef)) =>
        /\ ErrorCode(Response) = Num(-32600)
        /\ last.steps = <<>>
        /\ ~last.acq.called

\* a find_references call under jsonrpc "1.0", refused with -32600
C7_Witness ==
    /\ Answered
    /\ last.req.jsonrpc = Str("1.0")
    /\ last.req.name = Str("find_references")
    /\ ErrorCode(Response) = Num(-32600)
    /\ last.steps = <<>>

----------------------------------------------------------------------------
(* Claims about the refactoring skills *)

RenameCalled == op # Undef /\ op.name = "safeRenameSymbol"
UpdateCalled == op # Undef /\ op.name = "safeUpdateImport"

\* the text a skill works on: the project's copy of the file, else the file on disk
Loaded(state, f) ==
    IF state.brain[f].text # NotTracked THEN state.brain[f].text ELSE state.disk[f]

IdentifiersNamed(doc, name) ==
    {i \in 1..Len(doc) : doc[i].kind = "Identifier" /\ doc[i].text = name}

\* C8: when oldName does not resolve in the target file, renameSymbol reports failure
\* with no identifier renamed in any file of the model and no file persisted; rename
\* and save happen only after a successful resolution.
C8_RenameResolvesFirst ==
    (RenameCalled /\ Loaded(op.before, op.file) # Missing
        /\ IdentifiersNamed(Loaded(op.before, op.file), op.a) = {}) =>
        /\ op.result = "ERROR"
        /\ op.attempted = {}
        /\ op.after.disk = op.before.disk
        /\ \A g \in Files :
              op.after.brain[g] =
                 (IF g = op.file
                  THEN [text |-> Loaded(op.before, g), saved |-> op.before.brain[g].saved]
                  ELSE op.before.brain[g])

\* a rename that does not resolve while the project holds an unsaved file
C8_Witness ==
    /\ RenameCalled
    /\ op.result = "ERROR"
    /\ \E g \in Files : op.before.brain[g].text # NotTracked /\ ~op.before.brain[g].saved
    /\ op.after.disk = op.before.disk

ReferencesBefore == findAllReferencesResult(op.before.brain, op.before.disk, op.file, op.a)
NewNameAfter == findAllReferencesResult(op.after.brain, op.after.disk, op.file, op.b)
OldNameAfter == findAllReferencesResult(op.after.brain, op.after.disk, op.file, op.a)

RenameComplete ==
    /\ NewNameAfter.status = "SUCCESS"
    /\ NewNameAfter.count = ReferencesBefore.count
    /\ OldNameAfter.status = "ERROR"

\* C9 as stated: after a successful renameSymbol(f, foo, bar), findReferences(f, bar)
\* returns the number of references findReferences(f, foo) returned before, and
\* findReferences(f, foo) finds none, also when bar already occurs in f.
C9_AsStated ==
    (RenameCalled /\ op.result = "SUCCESS") => RenameComplete

\* no tracked file holds an identifier with the new name, and every identifier of the
\* target file with the old name is the symbol that resolution finds
Unambiguous ==
    LET B == addSourceFileAtPath(op.before.brain, op.before.disk, op.file)
        doc == B[op.file].text
    IN /\ op.a # op.b
       /\ \A g \in Files : IsTracked(B, g) => IdentifiersNamed(B[g].text, op.b) = {}
       /\ \A i, j \in IdentifiersNamed(doc, op.a) :
             SymbolOf(op.file, doc[i]) = SymbolOf(op.file, doc[j])

\* C9 amended: the same, for foo # bar, when before the rename no file of the project
\* holds an identifier with text bar and all identifiers with text foo in f refer to
\* one symbol.
C9_RenameComplete ==
    (RenameCalled /\ op.result = "SUCCESS" /\ Unambiguous) => RenameComplete

\* a rename that reaches a second file of the project
C9_Witness ==
    /\ RenameCalled
    /\ op.result = "SUCCESS"
    /\ Unambiguous
    /\ ReferencesBefore.files = Files
    /\ NewNameAfter.count = 3

\* C10: updateImport rewrites only the import declarations of f whose module
\* specifier equals old, saves f exactly when it replaced at least one, and otherwise
\* returns INFO with the persisted content of every file unchanged.
C10_UpdateImport ==
    (UpdateCalled /\ Loaded(op.before, op.file) # Missing) =>
        LET f == op.file
            doc == Loaded(op.before, f)
            matching == {i \in 1..Len(doc) :
                            doc[i].kind = "ImportDeclaration" /\ doc[i].text = op.a}
        IN /\ op.after.brain[f].text =
                 [i \in 1..Len(doc) |->
                     IF i \in matching THEN [doc[i] EXCEPT !.text = op.b] ELSE doc[i]]
           /\ \A g \in Files \ {f} :
                 /\ op.after.brain[g] = op.before.brain[g]
                 /\ op.after.disk[g] = op.before.disk[g]
           /\ op.count = Cardinality(matching)
           /\ op.attempted = (IF matching # {} THEN {f} ELSE {})
           /\ (op.result = "SUCCESS") = (op.written = {f})
           /\ op.written = {f} => op.after.disk[f] = op.after.brain[f].text
           /\ op.written = {} => op.after.disk = op.before.disk
           /\ (op.result = "INFO") = (matching = {})

\* nothing matched, and the file on disk is left as it was although the project's
\* copy differs from it
C10_Witness ==
    /\ UpdateCalled
    /\ op.result = "INFO"
    /\ op.after.brain[op.file].text # op.after.disk[op.file]
    /\ op.after.disk = op.before.disk

MutationSkills == {"safeRenameSymbol", "safeUpdateImport", "safeWriteFile", "safeMkdir"}

\* C11: renameSymbol, updateImport, writeFile and makeDirectory report a failing file
\* load, provider edit or save as a returned failure result; no exception escapes any
\* of them.
C11_FailuresAreReturned ==
    (op # Undef /\ op.name \in MutationSkills) => op.result # "THROW"

WriteSteps == <<"mkdir", "create", "format", "save", "add">>

ReadingSkills == {"checkTypeErrors", "findAllReferences"}

\* C13: after a successful writeFile(f, content), as long as nothing else writes to f,
\* the model's content of f and the persisted content of f are both the formatted
\* content, so a later operation on f works on what was written; the write creates the
\* parent directories, creates or overwrites the model file, formats, persists and
\* re-registers, in that order.
C13_WrittenContentIsSeen ==
    /\ \A f \in Files :
          wrote[f] # NoContent =>
             /\ IsTracked(brain, f)
             /\ brain[f].text = wrote[f]
             /\ disk[f] = wrote[f]
    /\ (op # Undef /\ op.name = "safeWriteFile" /\ op.result = "SUCCESS") =>
          /\ op.steps = WriteSteps
          /\ RepoDir \in dirs
          /\ op.after.disk[op.file] = formatText(op.content)
          /\ op.after.brain[op.file] = [text |-> formatText(op.content), saved |-> TRUE]
    /\ (op # Undef /\ op.name \in ReadingSkills /\ wrote[op.file] # NoContent) =>
          /\ op.result # "THROW"
          /\ op.after.brain[op.file].text = wrote[op.file]

\* a file written with content the formatter changes, then read by another skill
C13_Witness ==
    /\ op # Undef
    /\ op.name \in ReadingSkills
    /\ wrote[op.file] = TrimDoc
    /\ op.after.brain[op.file].text = TrimDoc
    /\ disk[op.file] = TrimDoc

\* the project with its view of f reloaded from the disk of that moment
Refreshed(state, f) ==
    [state.brain EXCEPT ![f] = [text |-> state.disk[f], saved |-> TRUE]]

QueryingSkills ==
    {"checkTypeErrors", "findAllReferences", "safeRenameSymbol", "safeUpdateImport"}

\* C16: findAllReferences, renameSymbol, updateImport and checkTypes reload the model's
\* view of the target file from persistent storage before they query or change it, so
\* they work on the current persisted content of a file that is already tracked.
C16_RefreshBeforeQuery ==
    (op # Undef /\ op.name \in QueryingSkills /\ op.result # "THROW"
        /\ op.before.disk[op.file] # Missing) =>
        /\ op.name = "checkTypeErrors" =>
              op.after.brain[op.file].text = op.before.disk[op.file]
        /\ op.name = "findAllReferences" =>
              LET seen == findAllReferencesResult(Refreshed(op.before, op.file),
                                                  op.before.disk, op.file, op.a)
              IN op.result = seen.status /\ op.count = seen.count
        /\ op.name = "safeRenameSymbol" =>
              (op.result = "ERROR") =
                 (IdentifiersNamed(op.before.disk[op.file], op.a) = {})
        /\ op.name = "safeUpdateImport" =>
              op.count = Cardinality(MatchingImports(op.before.disk[op.file], op.a))

\* the symbols that identifiers named `name` stand for in a file
SymbolsNamed(f, doc, name) == {SymbolOf(f, doc[i]) : i \in IdentifiersNamed(doc, name)}

\* C17: resolution by name takes the first identifier, in depth-first document order,
\* whose text is the requested name, also when several identifiers of the file have
\* that name, and fails with a not-found result exactly when no identifier has it.
C17_FirstMatchByName ==
    (RenameCalled /\ Loaded(op.before, op.file) # Missing) =>
        LET f == op.file
            doc == Loaded(op.before, f)
            named == IdentifiersNamed(doc, op.a)
        IN /\ (op.result = "ERROR") = (named = {})
           /\ named # {} =>
                 LET first == CHOOSE i \in named : \A j \in named : i <= j
                 IN \A i \in 1..Len(doc) :
                       op.after.brain[f].text[i].text =
                          (IF doc[i].kind = "Identifier"
                              /\ SymbolOf(f, doc[i]) = SymbolOf(f, doc[first])
                           THEN op.b ELSE doc[i].text)

\* a rename by a name that two different symbols of the file carry: the later one keeps
\* the name
C17_Witness ==
    /\ RenameCalled
    /\ op.result # "ERROR"
    /\ op.a # op.b
    /\ Cardinality(SymbolsNamed(op.file, Loaded(op.before, op.file), op.a)) = 2
    /\ IdentifiersNamed(op.after.brain[op.file].text, op.a) # {}

\* the save of a rename got some of the unsaved files onto the disk, and not all
PartialSave == RenameCalled /\ op.written # {} /\ op.written # op.attempted

\* C18: when the save of a multi-file renameSymbol fails after some files were saved,
\* the saved files keep their renamed content in persistent storage, the operation
\* ends in failure, and no saved file is put back to its content before the rename.
C18_NoRollback ==
    PartialSave =>
        /\ op.result = "THROW"
        /\ \A g \in op.written :
              /\ op.after.disk[g] = op.after.brain[g].text
              /\ op.after.brain[g].saved
        /\ \A g \in Files \ op.written : op.after.disk[g] = op.before.disk[g]
        /\ \A g \in op.attempted \ op.written : ~op.after.brain[g].saved

\* a rename over both files of which exactly one was saved, with the new name in it
C18_Witness ==
    /\ PartialSave
    /\ op.a # op.b
    /\ op.attempted = Files
    /\ \E g \in op.written :
          /\ op.after.disk[g] # op.before.disk[g]
          /\ IdentifiersNamed(op.after.disk[g], op.b) # {}
          /\ IdentifiersNamed(op.before.disk[g], op.b) = {}

----------------------------------------------------------------------------
(* Claims about the order of references, the cache and overlapping requests *)

FileRank(file) == IF file = RelativePath(FileA) THEN 1 ELSE 2

\* (file, line, offset) of r1 is not after that of r2
NotAfter(r1, r2) ==
    \/ FileRank(r1.file) < FileRank(r2.file)
    \/ /\ r1.file = r2.file
       /\ \/ r1.line < r2.line
          \/ r1.line = r2.line /\ r1.position <= r2.position

FoundReferences == Response.result.content[1].json.references

\* C12: the reference entries find_references returns are sorted ascending by
\* (file, line, offset), whatever the order in which the provider yields them.
C12_SortedReferences ==
    (Answered /\ last.req.method = Str("tools/call") /\ Response.error = Undef) =>
        \A i, j \in 1..Len(FoundReferences) :
            i < j => NotAfter(FoundReferences[i], FoundReferences[j])

\* the last exchange is a tools/call whose getProject() could not construct a project
ConstructionFailed ==
    Answered /\ last.acq.called /\ last.acq.instance = NoInstance

\* C14: when constructing a fresh model fails in getProject, the call fails, the cache
\* slot keeps its instance and its timestamp, and the next getProject constructs again
\* instead of returning a cached instance.
C14_FailedConstruction ==
    ConstructionFailed =>
        /\ Response.error # Undef
        /\ Response.status = 500
        /\ last.acq.after = last.acq.before
        /\ projectCache = last.acq.before
        /\ built = last.acq.builtBefore
        /\ ~CacheHit

\* the construction fails while the slot still holds the expired instance
C14_Witness ==
    /\ ConstructionFailed
    /\ projectCache.instance # NoInstance
    /\ projectCache = last.acq.before
    /\ now >= projectCache.timestamp + CACHE_LIFETIME_MS

\* what find_references answers when it goes on with the project it was given
AnswerOnAcquired(c) ==
    LET P == projects[c.acq.instance]
        f == c.req.filePath.s
    IN Answer(IF P.files[f] = NotTracked \/ disk[f] = Missing
              THEN NodeForgotten
              ELSE Resolve([P EXCEPT !.files[f] = disk[f]], f, c.req.position),
              c.req.id)

\* C15: a tools/call acquires the model once, at entry, and keeps that instance for the
\* whole request: a request that suspends on file I/O completes against the instance it
\* acquired, also when the cache slot was rebuilt in the meantime, and does not acquire
\* again.
C15_SnapshotInstance ==
    [][/\ \A c \in suspended' \ suspended :
             /\ c.acq.called
             /\ c.acq.at = now
             /\ c.instance = c.acq.instance
             /\ c.instance = projectCache'.instance
       /\ \A c \in suspended \ suspended' :
             /\ last'.req = c.req
             /\ last'.acq = c.acq
             /\ last'.responses = << AnswerOnAcquired(c) >>
             /\ projectCache' = projectCache
             /\ built' = built]_vars

\* a request that was suspended has completed, with references, against an instance
\* that is no longer the one in the cache slot
C15_Witness ==
    /\ Answered
    /\ \E i \in 1..Len(last.steps) : last.steps[i] = "refresh"
    /\ last.acq.instance # projectCache.instance
    /\ Response.error = Undef
    /\ Len(FoundReferences) > 0

\* requests the handler answers without a model
NoModelNeeded(req) ==
    \/ MalformedEnvelope(req)
    \/ req.method = Str("tools/list")
    \/ UnknownMethod(req)
    \/ UnknownTool(req)

\* C19: a malformed envelope, an unknown method, tools/list and a tools/call of an
\* unknown tool complete with the cache instance and timestamp unchanged, also when the
\* cached instance has expired; only a tools/call of a registered tool creates or
\* replaces the cached model.
C19_CacheUntouched ==
    [][/\ (projectCache' # projectCache \/ built' # built) =>
             /\ last'.req # Undef
             /\ ~NoModelNeeded(last'.req)
             /\ last'.acq.called
             /\ last'.acq.after = projectCache'
       /\ (last' # last /\ NoModelNeeded(last'.req)) =>
             /\ projectCache' = projectCache
             /\ built' = built
             /\ projects' = projects
             /\ last'.steps \in {<<>>, <<"dispatch">>, <<"dispatch", "lookup">>}]_vars

\* a request that needs no model has been answered while the slot holds an expired
\* instance
C19_Witness ==
    /\ Answered
    /\ NoModelNeeded(last.req)
    /\ ~last.acq.called
    /\ projectCache.instance # NoInstance
    /\ now >= projectCache.timestamp + CACHE_LIFETIME_MS

\* the getProject() calls of the requests in flight and of the last one answered that
\* returned an instance
Acquisitions ==
    {r \in (IF Answered /\ last.acq.called THEN {last.acq} ELSE {})
              \cup {c.acq : c \in suspended} : r.instance # NoInstance}

InWindow(t, timestamp) == timestamp <= t /\ t < timestamp + CACHE_LIFETIME_MS

\* C20: getProject tests the TTL and replaces the slot in one step, so with requests
\* interleaved in any way the slot holds one instance, the latest built; an instance is
\* rebuilt only when the slot is empty or expired, once per expiry; and two requests
\* that acquire within the same TTL window of one build get the identical instance.
C20_OneInstancePerWindow ==
    /\ projectCache.instance = built
    /\ \A r \in Acquisitions :
          /\ r.after.instance = r.instance
          /\ InWindow(r.at, r.after.timestamp)
          /\ r.instance # r.before.instance =>
                /\ r.before.instance = NoInstance
                      \/ r.at >= r.before.timestamp + CACHE_LIFETIME_MS
                /\ r.instance = r.builtBefore + 1
                /\ r.after.timestamp = r.at
          /\ InWindow(r.at, projectCache.timestamp) => r.instance = projectCache.instance
    /\ \A r1, r2 \in Acquisitions :
          /\ InWindow(r2.at, r1.after.timestamp) => r2.instance = r1.instance
          /\ r1.instance < r2.instance =>
                r2.after.timestamp >= r1.after.timestamp + CACHE_LIFETIME_MS

\* a suspended request and the last one answered acquired at different times within
\* one window
C20_Witness ==
    /\ Answered
    /\ last.acq.called
    /\ \E c \in suspended :
          /\ c.acq.instance = last.acq.instance
          /\ c.acq.instance # NoInstance
          /\ c.acq.at # last.acq.at

====
